---- MODULE Spec2Model ----
(***************************************************************************)
(* Model of services/python/extract_structured.py: a single-shot command   *)
(* line bridge that imports the langextract library, loads the environment *)
(* with python-dotenv, parses its arguments, calls lx.extract once with a  *)
(* hard-coded example and prints the result as JSON.                       *)
(*                                                                         *)
(* Python objects are records: an object has attribute a iff a is in the   *)
(* record's DOMAIN (hasattr), and reading a missing attribute raises       *)
(* AttributeError.  A stream (stdout, stderr) is the sequence of documents *)
(* written to it, each tagged with its format: "json" for the output of    *)
(* json.dumps, "text" for what argparse or the interpreter print.          *)
(***************************************************************************)
EXTENDS Integers, Sequences, FiniteSets, TLC

\* Largest number of extraction items in a result returned by the library.
MaxItems == 2
\* Largest number of citations carried by one extraction item.
MaxCitations == 2

\* Python's None (an option that was not given, an unset variable).
None == "<None>"

VARIABLES
    pc,        \* position of the process in the script
    argv,      \* the command line: the values given for the four options
    world,     \* what is outside the script: installed packages, .env, library
    environ,   \* os.environ, restricted to the two credential variables
    args,      \* the namespace returned by parser.parse_args()
    examples,  \* the local variable examples of main()
    calls,     \* the calls made to lx.extract, in order
    result,    \* the local variable result of main()
    exc,       \* the exception being handled by the except clause of main()
    raised,    \* every exception raised so far, with the step that raised it
    stdout,    \* documents written to standard output
    stderr,    \* documents written to standard error
    exitCode,  \* the exit status; it is the process's status once pc = "exited"
    history    \* the steps executed so far, in order

vars == <<pc, argv, world, environ, args, examples, calls, result, exc,
          raised, stdout, stderr, exitCode, history>>

----------------------------------------------------------------------------
\* Helpers for Python values

HasAttr(o, a) == a \in DOMAIN o

Min(S) == CHOOSE x \in S : \A y \in S : x <= y

SeqsUpTo(S, n) == UNION {[1..k -> S] : k \in 0..n}

Exception(type, msg) == [type |-> type, msg |-> msg]

\* str(e) of the AttributeError raised by reading a missing attribute (the
\* leading class name of the object is the library's and is left out).
AttributeErrorMsg(a) ==
    CASE a = "extractions"      -> "object has no attribute 'extractions'"
      [] a = "extraction_class" -> "object has no attribute 'extraction_class'"
      [] a = "extraction_text"  -> "object has no attribute 'extraction_text'"
      [] a = "attributes"       -> "object has no attribute 'attributes'"
      [] a = "start"            -> "object has no attribute 'start'"
      [] a = "end"              -> "object has no attribute 'end'"
      [] a = "text"             -> "object has no attribute 'text'"
      [] a = "model_id"         -> "object has no attribute 'model_id'"
      [] a = "usage_metadata"   -> "object has no attribute 'usage_metadata'"

\* The first attribute of names (a sequence) that o lacks, None if it has all.
FirstMissing(o, names) ==
    LET bad == {i \in 1..Len(names) : ~HasAttr(o, names[i])}
    IN  IF bad = {} THEN None ELSE names[Min(bad)]

JsonDoc(d) == [fmt |-> "json", doc |-> d]

----------------------------------------------------------------------------
\* The inputs: command lines, environments, and behaviours of the library

Argvs == [file   : {None, "missing.txt", "doc.txt"},
          prompt : {None, "x", "people and places"},
          model  : {None, "gemini-1.5-pro"},
          schema : {None, "{}"}]

CredentialVars == {"LANGEXTRACT_API_KEY", "GOOGLE_API_KEY"}

Environs == {[LANGEXTRACT_API_KEY |-> None, GOOGLE_API_KEY |-> None],
             [LANGEXTRACT_API_KEY |-> "env-key", GOOGLE_API_KEY |-> None],
             [LANGEXTRACT_API_KEY |-> None, GOOGLE_API_KEY |-> "env-key"]}

\* What load_dotenv() finds: no .env file, a .env file defining a credential,
\* or a .env file it cannot read (it raises).
NoDotenvFile == [LANGEXTRACT_API_KEY |-> None, GOOGLE_API_KEY |-> None]
DotenvOutcomes ==
    {[raises |-> FALSE, file |-> NoDotenvFile],
     [raises |-> FALSE,
      file |-> [LANGEXTRACT_API_KEY |-> None, GOOGLE_API_KEY |-> "file-key"]],
     [raises |-> TRUE, file |-> NoDotenvFile]}

\* Citations as the library may return them: the bridge is handed the
\* offsets whatever they are, so both orders of start and end occur.
CitationValues == {[start |-> 0, end |-> 5, text |-> "Alice"],
                   [start |-> 24, end |-> 15, text |-> "Wonderland"]}

CitationSeqs == SeqsUpTo(CitationValues, MaxCitations)

ItemAlice == [extraction_class |-> "entity", extraction_text |-> "Alice",
              attributes |-> [type |-> "person"]]
ItemWonderland == [extraction_class |-> "place",
                   extraction_text |-> "Wonderland",
                   attributes |-> [type |-> "location"]]

WithCitations(e, cs) ==
    [extraction_class |-> e.extraction_class,
     extraction_text |-> e.extraction_text,
     attributes |-> e.attributes,
     citations |-> cs]

\* Extraction items: without the citations attribute, or with a sequence.
Items == {ItemAlice, ItemWonderland}
         \cup {WithCitations(e, cs) : e \in {ItemAlice, ItemWonderland},
                                      cs \in CitationSeqs}

Usage == [prompt_tokens |-> 12, total_tokens |-> 40]

ResultOf(items) ==
    [extractions |-> items, model_id |-> "gemini-2.0-flash",
     usage_metadata |-> Usage]

Returns(r) == [raises |-> FALSE, value |-> r]
Raises(e) == [raises |-> TRUE, exc |-> e]

\* Every well-formed result of up to MaxItems items.
LibRich == {Returns(ResultOf(items)) : items \in SeqsUpTo(Items, MaxItems)}

\* Results that lack an attribute the serializer reads, or that carry a value
\* json.dumps cannot encode (marked by the attribute __object__).
LibFaulty ==
    {Returns([extractions |-> <<ItemAlice>>, usage_metadata |-> Usage]),
     Returns([extractions |-> <<ItemAlice>>, model_id |-> "gemini-2.0-flash"]),
     Returns([model_id |-> "gemini-2.0-flash", usage_metadata |-> Usage]),
     Returns(ResultOf(<<ItemAlice, [extraction_class |-> "place",
                                    attributes |-> [type |-> "location"]]>>)),
     Returns(ResultOf(<<[extraction_class |-> "entity",
                         extraction_text |-> "Alice",
                         attributes |-> [type |-> "person"],
                         citations |-> <<[start |-> 0, text |-> "Alice"]>>]>>)),
     Returns([extractions |-> <<ItemAlice>>, model_id |-> "gemini-2.0-flash",
              usage_metadata |-> [__object__ |-> "UsageMetadata"]])}

LibErrors == {Raises(Exception("RuntimeError", "rate limited")),
              Raises(Exception("ValueError", "API key not provided"))}

LibSmall == {Returns(ResultOf(<<>>)), Returns(ResultOf(<<ItemAlice>>))}
            \cup LibFaulty \cup LibErrors

\* The reference command line of the runs that explore the library's results.
ReferenceArgv == [file |-> "missing.txt", prompt |-> "x", model |-> None,
                  schema |-> None]

Worlds == [lx_installed : BOOLEAN, dotenv_installed : BOOLEAN,
           dotenv : DotenvOutcomes, environ : Environs, lib : LibSmall]

ReferenceWorlds == [lx_installed : {TRUE}, dotenv_installed : {TRUE},
                    dotenv : {[raises |-> FALSE, file |-> NoDotenvFile]},
                    environ : {[LANGEXTRACT_API_KEY |-> "env-key",
                                GOOGLE_API_KEY |-> None]},
                    lib : LibRich]

Init ==
    /\ \/ argv \in Argvs /\ world \in Worlds
       \/ argv = ReferenceArgv /\ world \in ReferenceWorlds
    /\ environ = world.environ
    /\ pc = "import_langextract"
    /\ args = [file |-> None, prompt |-> None, model |-> None, schema |-> None]
    /\ examples = <<>>
    /\ calls = <<>>
    /\ result = [unset |-> TRUE]
    /\ exc = Exception(None, None)
    /\ raised = <<>>
    /\ stdout = <<>>
    /\ stderr = <<>>
    /\ exitCode = 0
    /\ history = <<>>

----------------------------------------------------------------------------
\* The script's constants and pure parts

InstallMsg ==
    "langextract not installed. Please run 'pip install -r services/python/requirements.txt'"

DefaultModel == "gemini-2.0-flash"

\* Mutant: --prompt declared without required=True.
MutParseArgsPromptOptional(av) ==
    IF av.file = None
    THEN [ok |-> FALSE,
          usage |-> "the following arguments are required: --file"]
    ELSE [ok |-> TRUE,
          ns |-> [file |-> av.file, prompt |-> av.prompt,
                  model |-> IF av.model = None THEN DefaultModel ELSE av.model,
                  schema |-> av.schema]]

\* argparse: --file and --prompt are required, --model has a default and
\* --schema defaults to None.  A missing required option is a usage error.
ParseArgs(av) ==
    IF av.file = None \/ av.prompt = None
    THEN [ok |-> FALSE,
          usage |-> CASE av.file = None /\ av.prompt = None ->
                           "the following arguments are required: --file, --prompt"
                      [] av.file = None ->
                           "the following arguments are required: --file"
                      [] OTHER ->
                           "the following arguments are required: --prompt"]
    ELSE [ok |-> TRUE,
          ns |-> [file |-> av.file, prompt |-> av.prompt,
                  model |-> IF av.model = None THEN DefaultModel ELSE av.model,
                  schema |-> av.schema]]

\* load_dotenv(): a variable of the .env file is set unless already set.
LoadDotenv(env, file) ==
    [k \in CredentialVars |-> IF env[k] # None THEN env[k] ELSE file[k]]

\* The condition of the API key check (its branch is `pass`).
NoApiKey(env) ==
    env["LANGEXTRACT_API_KEY"] = None /\ env["GOOGLE_API_KEY"] = None

\* The dummy example given to the library.
Examples ==
    <<[text |-> "Alice lives in Wonderland.",
       extractions |-> <<[extraction_class |-> "entity",
                          extraction_text |-> "Alice",
                          attributes |-> [type |-> "person",
                                          context |-> "protagonist"]]>>]>>

\* Mutant: the call ignores --model and always asks for the default.
MutExtractCallDefaultModel(a, ex) ==
    [text_or_documents |-> a.file, prompt_description |-> a.prompt,
     model_id |-> DefaultModel, examples |-> ex]

\* The keyword arguments of lx.extract(...).
ExtractCall(a, ex) ==
    [text_or_documents |-> a.file, prompt_description |-> a.prompt,
     model_id |-> a.model, examples |-> ex]

\* Mutant: start and end read from the wrong attributes.
MutCitationEntrySwapped(c) == [start |-> c.end, end |-> c.start, text |-> c.text]

\* The serializer: the dict built from result.
CitationEntry(c) == [start |-> c.start, end |-> c.end, text |-> c.text]

CitationsOf(e) ==
    IF HasAttr(e, "citations")
    THEN [j \in 1..Len(e.citations) |-> CitationEntry(e.citations[j])]
    ELSE <<>>

\* Mutant: the citations key is written only for items that have citations.
MutEntryOmitsCitations(e) ==
    IF HasAttr(e, "citations")
    THEN [class |-> e.extraction_class, text |-> e.extraction_text,
          attributes |-> e.attributes, citations |-> CitationsOf(e)]
    ELSE [class |-> e.extraction_class, text |-> e.extraction_text,
          attributes |-> e.attributes]

Entry(e) ==
    [class |-> e.extraction_class, text |-> e.extraction_text,
     attributes |-> e.attributes, citations |-> CitationsOf(e)]

\* Mutant: the items are emitted last to first.
MutExtractionsReversed(r) ==
    [i \in 1..Len(r.extractions) |->
        Entry(r.extractions[Len(r.extractions) + 1 - i])]

Extractions(r) == [i \in 1..Len(r.extractions) |-> Entry(r.extractions[i])]

Output(r) ==
    [extractions |-> Extractions(r), model |-> r.model_id,
     usage |-> r.usage_metadata]

\* The first missing attribute met while Output(r) is evaluated, in Python's
\* order of evaluation; None if every read succeeds.
CitationMissing(c) == FirstMissing(c, <<"start", "end", "text">>)

FirstCitationMissing(cs) ==
    LET bad == {j \in 1..Len(cs) : CitationMissing(cs[j]) # None}
    IN  IF bad = {} THEN None ELSE CitationMissing(cs[Min(bad)])

ItemMissing(e) ==
    LET m == FirstMissing(e, <<"extraction_class", "extraction_text",
                               "attributes">>)
    IN  IF m # None THEN m
        ELSE IF HasAttr(e, "citations")
             THEN FirstCitationMissing(e.citations)
             ELSE None

FirstItemMissing(items) ==
    LET bad == {i \in 1..Len(items) : ItemMissing(items[i]) # None}
    IN  IF bad = {} THEN None ELSE ItemMissing(items[Min(bad)])

ResultMissing(r) ==
    IF ~HasAttr(r, "extractions") THEN "extractions"
    ELSE LET m == FirstItemMissing(r.extractions)
         IN  IF m # None THEN m
             ELSE FirstMissing(r, <<"model_id", "usage_metadata">>)

\* json.dumps encodes mappings of plain values; an arbitrary object (marked
\* by __object__) makes it raise TypeError.
JsonSerializable(out) ==
    /\ ~HasAttr(out.usage, "__object__")
    /\ \A i \in 1..Len(out.extractions) :
          ~HasAttr(out.extractions[i].attributes, "__object__")

\* The outcome of lines 72-92: the document printed, or the exception raised.
Serialize(r) ==
    IF ResultMissing(r) # None
    THEN Raises(Exception("AttributeError", AttributeErrorMsg(ResultMissing(r))))
    ELSE IF ~JsonSerializable(Output(r))
         THEN Raises(Exception("TypeError",
                               "Object of type UsageMetadata is not JSON serializable"))
         ELSE Returns(Output(r))

\* Mutant: the type reported is that of the handler's base class.
MutErrorMsgBaseType(e) == [error |-> e.msg, type |-> "Exception"]

\* The dict of the except clause of main().
ErrorMsg(e) == [error |-> e.msg, type |-> e.type]

\* The dict printed when langextract cannot be imported.
ImportErrorMsg == [error |-> InstallMsg]

\* What the interpreter prints for an exception nothing catches.
Traceback(e) ==
    [fmt |-> "text",
     doc |-> [text |-> "Traceback (most recent call last):",
              type |-> e.type, msg |-> e.msg]]

\* What argparse prints for a usage error.
UsageError(msg) ==
    [fmt |-> "text",
     doc |-> [text |-> "usage: extract_structured.py [-h] --file FILE --prompt PROMPT [--model MODEL] [--schema SCHEMA]",
              msg |-> msg]]

----------------------------------------------------------------------------
\* The steps of the process

Step(name) == history' = Append(history, name)

Exit(status) == pc' = "exited" /\ exitCode' = status

\* An exception no handler catches ends the process: traceback, status 1.
Uncaught(step, e) ==
    /\ raised' = Append(raised, [step |-> step, type |-> e.type, msg |-> e.msg,
                                 caught |-> FALSE])
    /\ stderr' = Append(stderr, Traceback(e))
    /\ Exit(1)

\* Mutant: the except clause prints the error and forgets sys.exit(1).
MutImportLangextractNoExit ==
    /\ pc = "import_langextract"
    /\ Step("import_langextract")
    /\ pc' = "import_dotenv"
    /\ IF world.lx_installed
       THEN UNCHANGED stderr
       ELSE stderr' = Append(stderr, JsonDoc(ImportErrorMsg))
    /\ UNCHANGED <<argv, world, environ, args, examples, calls, result, exc,
                   raised, stdout, exitCode>>

\* try: import langextract as lx / except ImportError: print, sys.exit(1)
ImportLangextract ==
    /\ pc = "import_langextract"
    /\ Step("import_langextract")
    /\ IF world.lx_installed
       THEN /\ pc' = "import_dotenv"
            /\ UNCHANGED <<stderr, exitCode>>
       ELSE /\ stderr' = Append(stderr, JsonDoc(ImportErrorMsg))
            /\ Exit(1)
    /\ UNCHANGED <<argv, world, environ, args, examples, calls, result, exc,
                   raised, stdout>>

\* from dotenv import load_dotenv
ImportDotenv ==
    /\ pc = "import_dotenv"
    /\ Step("import_dotenv")
    /\ IF world.dotenv_installed
       THEN /\ pc' = "load_dotenv"
            /\ UNCHANGED <<raised, stderr, exitCode>>
       ELSE Uncaught("import_dotenv",
                     Exception("ModuleNotFoundError", "No module named 'dotenv'"))
    /\ UNCHANGED <<argv, world, environ, args, examples, calls, result, exc,
                   stdout>>

\* load_dotenv()
LoadEnvironment ==
    /\ pc = "load_dotenv"
    /\ Step("load_dotenv")
    /\ IF world.dotenv.raises
       THEN /\ Uncaught("load_dotenv",
                        Exception("PermissionError",
                                  "[Errno 13] Permission denied: '.env'"))
            /\ UNCHANGED environ
       ELSE /\ environ' = LoadDotenv(environ, world.dotenv.file)
            /\ pc' = "parse_args"
            /\ UNCHANGED <<raised, stderr, exitCode>>
    /\ UNCHANGED <<argv, world, args, examples, calls, result, exc, stdout>>

\* args = parser.parse_args(): a usage error prints to stderr and exits 2.
ParseArguments ==
    /\ pc = "parse_args"
    /\ Step("parse_args")
    /\ LET p == ParseArgs(argv)
       IN  IF p.ok
           THEN /\ args' = p.ns
                /\ pc' = "validate_api_key"
                /\ UNCHANGED <<stderr, exitCode>>
           ELSE /\ stderr' = Append(stderr, UsageError(p.usage))
                /\ Exit(2)
                /\ UNCHANGED args
    /\ UNCHANGED <<argv, world, environ, examples, calls, result, exc, raised,
                   stdout>>

\* if not os.getenv(...) and not os.getenv(...): pass
ValidateApiKey ==
    /\ pc = "validate_api_key"
    /\ Step("validate_api_key")
    /\ IF NoApiKey(environ) THEN pc' = "extract" ELSE pc' = "extract"
    /\ UNCHANGED <<argv, world, environ, args, examples, calls, result, exc,
                   raised, stdout, stderr, exitCode>>

\* examples = [...]; result = lx.extract(...)
Extract ==
    /\ pc = "extract"
    /\ Step("extract")
    /\ examples' = Examples
    /\ calls' = Append(calls, ExtractCall(args, Examples))
    /\ IF world.lib.raises
       THEN /\ exc' = world.lib.exc
            /\ raised' = Append(raised, [step |-> "extract",
                                         type |-> world.lib.exc.type,
                                         msg |-> world.lib.exc.msg,
                                         caught |-> TRUE])
            /\ pc' = "except"
            /\ UNCHANGED result
       ELSE /\ result' = world.lib.value
            /\ pc' = "serialize"
            /\ UNCHANGED <<exc, raised>>
    /\ UNCHANGED <<argv, world, environ, args, stdout, stderr, exitCode>>

\* output = {...}; print(json.dumps(output, indent=2)); then main() returns
\* and the process ends with status 0.
SerializeResult ==
    /\ pc = "serialize"
    /\ Step("serialize")
    /\ LET s == Serialize(result)
       IN  IF s.raises
           THEN /\ exc' = s.exc
                /\ raised' = Append(raised, [step |-> "serialize",
                                             type |-> s.exc.type,
                                             msg |-> s.exc.msg,
                                             caught |-> TRUE])
                /\ pc' = "except"
                /\ UNCHANGED <<stdout, exitCode>>
           ELSE /\ stdout' = Append(stdout, JsonDoc(s.value))
                /\ Exit(0)
                /\ UNCHANGED <<exc, raised>>
    /\ UNCHANGED <<argv, world, environ, args, examples, calls, result, stderr>>

\* except Exception as e: print the error dict to stderr; sys.exit(1)
ExceptHandler ==
    /\ pc = "except"
    /\ Step("except")
    /\ stderr' = Append(stderr, JsonDoc(ErrorMsg(exc)))
    /\ Exit(1)
    /\ UNCHANGED <<argv, world, environ, args, examples, calls, result, exc,
                   raised, stdout>>

Next ==
    \/ ImportLangextract
    \/ ImportDotenv
    \/ LoadEnvironment
    \/ ParseArguments
    \/ ValidateApiKey
    \/ Extract
    \/ SerializeResult
    \/ ExceptHandler

Spec == Init /\ [][Next]_vars

----------------------------------------------------------------------------
\* Vocabulary of the properties

Exited == pc = "exited"

Succeeded == Exited /\ exitCode = 0

Did(step) == \E k \in 1..Len(history) : history[k] = step

\* The library returned a result to the bridge (it did not raise).
LibReturned == Did("extract") /\ ~world.lib.raises

\* The sequence of items the extraction call returned.
ReturnedItems == world.lib.value.extractions

\* The one document on stdout after a successful run.
Printed == stdout[1].doc

OneJsonOn(stream) == Len(stream) = 1 /\ stream[1].fmt = "json"

LacksCitations(e) == "citations" \notin DOMAIN e

\* An Extraction Result as the data model describes it: every field the
\* serializer reads is there and the usage record is plain data.
IsCitation(c) == DOMAIN c = {"start", "end", "text"}

IsExtractionItem(e) ==
    /\ {"extraction_class", "extraction_text", "attributes"} \subseteq DOMAIN e
    /\ "__object__" \notin DOMAIN e.attributes
    /\ LacksCitations(e) \/ \A j \in 1..Len(e.citations) : IsCitation(e.citations[j])

IsExtractionResult(r) ==
    /\ {"extractions", "model_id", "usage_metadata"} \subseteq DOMAIN r
    /\ "__object__" \notin DOMAIN r.usage_metadata
    /\ \A i \in 1..Len(r.extractions) : IsExtractionItem(r.extractions[i])

----------------------------------------------------------------------------
\* C1: after every successful run the extractions array on stdout has the
\* length of the sequence the extraction call returned, and its i-th entry
\* carries the class, text and attributes of the i-th returned item: nothing
\* is reordered, filtered or deduplicated.
Thm_C1_ExtractionsMirrorResult ==
    Succeeded =>
        /\ OneJsonOn(stdout)
        /\ Len(Printed.extractions) = Len(ReturnedItems)
        /\ \A i \in 1..Len(ReturnedItems) :
              /\ Printed.extractions[i].class = ReturnedItems[i].extraction_class
              /\ Printed.extractions[i].text = ReturnedItems[i].extraction_text
              /\ Printed.extractions[i].attributes = ReturnedItems[i].attributes

\* A successful run whose result holds two different items.
Wit_C1_TwoDistinctItems ==
    /\ Succeeded
    /\ Len(ReturnedItems) = 2
    /\ ReturnedItems[1].extraction_text # ReturnedItems[2].extraction_text
    /\ Len(Printed.extractions) = 2

\* C2: when the extraction call raises an error with message M and class C,
\* the run writes nothing to stdout, writes exactly {"error": M, "type": C}
\* to stderr and exits with status 1.
Thm_C2_ExtractionErrorReported ==
    (Exited /\ Did("extract") /\ world.lib.raises) =>
        /\ stdout = <<>>
        /\ stderr = <<JsonDoc([error |-> world.lib.exc.msg,
                               type |-> world.lib.exc.type])>>
        /\ exitCode = 1

Wit_C2_RateLimited ==
    /\ Exited
    /\ Did("extract")
    /\ world.lib.raises
    /\ world.lib.exc.msg = "rate limited"
    /\ stderr = <<JsonDoc([error |-> "rate limited", type |-> "RuntimeError"])>>

\* C3 (as claimed): every exception raised by the environment loader, the
\* extraction call or the serializer ends as {"error": message, "type": kind}
\* on stderr with exit status 1; none escapes uncaught.
Cex_C3_EveryExceptionCaught ==
    Exited =>
        \A k \in 1..Len(raised) :
            raised[k].step \in {"load_dotenv", "extract", "serialize"} =>
                /\ raised[k].caught
                /\ stderr = <<JsonDoc([error |-> raised[k].msg,
                                       type |-> raised[k].type])>>
                /\ exitCode = 1

\* C4 (as claimed): every run ends either with status 0 and the JSON result
\* on stdout, or with status 1 and a JSON error object on stderr.
Cex_C4_TwoWaysToEnd ==
    Exited =>
        \/ exitCode = 0 /\ OneJsonOn(stdout) /\ stderr = <<>>
        \/ /\ exitCode = 1
           /\ stdout = <<>>
           /\ OneJsonOn(stderr)
           /\ "error" \in DOMAIN stderr[1].doc

\* C5: an item the library returned without citation data does not make the
\* run fail (a result that is otherwise an Extraction Result is printed with
\* status 0), and in every successful run the entry of such an item has a
\* citations field that is the empty array.
Thm_C5_NoCitationsGivesEmptyArray ==
    (Exited /\ LibReturned) =>
        /\ (/\ IsExtractionResult(world.lib.value)
            /\ \E i \in 1..Len(ReturnedItems) : LacksCitations(ReturnedItems[i]))
           => exitCode = 0
        /\ exitCode = 0 =>
              \A i \in 1..Len(ReturnedItems) :
                  LacksCitations(ReturnedItems[i]) =>
                      /\ "citations" \in DOMAIN Printed.extractions[i]
                      /\ Printed.extractions[i].citations = <<>>

\* A successful run with an item lacking citations next to one that has some.
Wit_C5_ItemWithoutCitations ==
    /\ Succeeded
    /\ Len(ReturnedItems) = 2
    /\ LacksCitations(ReturnedItems[1])
    /\ ~LacksCitations(ReturnedItems[2])
    /\ Len(ReturnedItems[2].citations) > 0
    /\ Printed.extractions[1].citations = <<>>

\* C6 (as claimed): the citations array of an item with N citations has N
\* entries, in order, each with integer start and end and start <= end.
Cex_C6_StartNotAfterEnd ==
    Succeeded =>
        \A i \in 1..Len(ReturnedItems) :
            ~LacksCitations(ReturnedItems[i]) =>
                /\ Len(Printed.extractions[i].citations)
                      = Len(ReturnedItems[i].citations)
                /\ \A j \in 1..Len(Printed.extractions[i].citations) :
                      LET c == Printed.extractions[i].citations[j]
                      IN  c.start \in Int /\ c.end \in Int /\ c.start <= c.end

\* C6 (amended): the citations array of an item with N citations has N
\* entries, in order, each carrying the start, end and text of the citation
\* the library returned, unchanged; start and end are integers, and
\* start <= end holds for an entry exactly when it holds for that citation.
Thm_C6_CitationsPassedThrough ==
    Succeeded =>
        \A i \in 1..Len(ReturnedItems) :
            ~LacksCitations(ReturnedItems[i]) =>
                /\ Len(Printed.extractions[i].citations)
                      = Len(ReturnedItems[i].citations)
                /\ \A j \in 1..Len(ReturnedItems[i].citations) :
                      LET c == Printed.extractions[i].citations[j]
                          src == ReturnedItems[i].citations[j]
                      IN  /\ DOMAIN c = {"start", "end", "text"}
                          /\ c.start \in Int /\ c.end \in Int
                          /\ c.start = src.start
                          /\ c.end = src.end
                          /\ c.text = src.text
                          /\ (c.start <= c.end) <=> (src.start <= src.end)

\* A successful run with an item that has two different citations.
Wit_C6_TwoCitations ==
    /\ Succeeded
    /\ \E i \in 1..Len(ReturnedItems) :
          /\ ~LacksCitations(ReturnedItems[i])
          /\ Len(ReturnedItems[i].citations) = 2
          /\ ReturnedItems[i].citations[1] # ReturnedItems[i].citations[2]
          /\ Len(Printed.extractions[i].citations) = 2

\* C7: a command line without --prompt or without --file ends the process
\* with a non-zero status and nothing on stdout, no later than argument
\* parsing and without any call of the extraction capability; when both
\* imports and the environment loading succeed it is argument parsing that
\* ends it.
Thm_C7_MissingRequiredArgument ==
    (argv.file = None \/ argv.prompt = None) =>
        /\ calls = <<>>
        /\ stdout = <<>>
        /\ ~Did("validate_api_key") /\ ~Did("extract") /\ ~Did("serialize")
        /\ Exited =>
              /\ exitCode # 0
              /\ Did("parse_args") => history[Len(history)] = "parse_args"

Wit_C7_PromptOmitted ==
    /\ Exited
    /\ argv.prompt = None
    /\ argv.file # None
    /\ Did("parse_args")
    /\ exitCode = 2

\* C8: when the import of the extraction library fails the process writes a
\* JSON object with key error, carrying the installation instruction, to
\* stderr and exits with status 1, before the environment is loaded, before
\* the arguments are parsed and without any extraction call, whatever the
\* command line.
Thm_C8_ImportFailureFirst ==
    (~world.lx_installed /\ history # <<>>) =>
        /\ Exited
        /\ exitCode = 1
        /\ history = <<"import_langextract">>
        /\ OneJsonOn(stderr)
        /\ "error" \in DOMAIN stderr[1].doc
        /\ stderr[1].doc.error =
             "langextract not installed. Please run 'pip install -r services/python/requirements.txt'"
        /\ stdout = <<>>
        /\ calls = <<>>
        /\ environ = world.environ

\* The import fails on a command line that lacks --prompt and on a .env file
\* that would have set a variable.
Wit_C8_ImportFailsWithBadArgv ==
    /\ Exited
    /\ ~world.lx_installed
    /\ argv.prompt = None
    /\ world.dotenv.file.GOOGLE_API_KEY # None
    /\ exitCode = 1

\* C9 (as claimed): every JSON error object written to stderr has both the
\* key error and the key type.
Cex_C9_OneErrorShape ==
    \A k \in 1..Len(stderr) :
        stderr[k].fmt = "json" => DOMAIN stderr[k].doc = {"error", "type"}

\* C10: every run that parses its arguments calls the extraction capability
\* once, with the --file string as given (no existence check), the --prompt
\* text, the --model value or the default gemini-2.0-flash, and a one-element
\* example set that is the same whatever --file, --prompt, --model, --schema
\* and the credential variables are.
Thm_C10_CallArguments ==
    /\ (argv.file # None /\ argv.prompt # None /\ Did("parse_args")
          /\ pc \notin {"validate_api_key", "extract"})
       => Len(calls) = 1
    /\ \A k \in 1..Len(calls) :
          /\ calls[k].text_or_documents = argv.file
          /\ calls[k].prompt_description = argv.prompt
          /\ calls[k].model_id =
                IF argv.model = None THEN "gemini-2.0-flash" ELSE argv.model
          /\ Len(calls[k].examples) = 1
          /\ calls[k].examples =
                <<[text |-> "Alice lives in Wonderland.",
                   extractions |->
                       <<[extraction_class |-> "entity",
                          extraction_text |-> "Alice",
                          attributes |-> [type |-> "person",
                                          context |-> "protagonist"]]>>]>>

\* The call is made for a file nobody checked, with a model and a schema
\* given and no credential variable set.
Wit_C10_MissingFileReachesCall ==
    /\ Len(calls) = 1
    /\ argv.file = "missing.txt"
    /\ calls[1].text_or_documents = "missing.txt"
    /\ argv.model # None
    /\ argv.schema # None
    /\ NoApiKey(environ)

====
